---- MODULE Spec2Model ----
(***************************************************************************)
(* PollingExecutor<TPollFunctor, TDispatchFunctor>                         *)
(* (include/thousandeyes/futures/PollingExecutor.h).                       *)
(*                                                                         *)
(* Threads of the model: one caller of watch() per Waitable, a number of   *)
(* callers of stop(), the poll runner executing the polling lambdas that   *)
(* watch() submits, and the dispatch runner executing the dispatch         *)
(* lambdas.  Taking mutex_ is a step; the block guarded by the             *)
(* std::lock_guard is one step that ends with the release; everything      *)
(* outside a lock is a step of its own.                                    *)
(***************************************************************************)
EXTENDS Integers, Sequences, FiniteSets, TLC

\* ---- bounds ------------------------------------------------------------
NumOps == 2          \* Waitables handed to watch()
NumStoppers == 2     \* calls of stop() (explicit calls and the destructor's)
MaxNotReady == 1     \* times wait() of one Waitable may return false

Ops == 1..NumOps
Stoppers == 1..NumStoppers
NoOp == 0            \* an empty std::unique_ptr<Waitable>

\* the threads that take mutex_
NoThread == <<"none", 0>>
WatchThread(o) == <<"watch", o>>
LoopThread(l) == <<"loop", l>>
StopThread(s) == <<"stop", s>>

\* calls of watch() and stop() made by user code from inside wait() or
\* dispatch()
Calls == [kind : {"watch"}, id : Ops] \cup [kind : {"stop"}, id : Stoppers]

VARIABLES
    mutex_,           \* std::mutex mutex_: the thread that holds it
    active_,          \* bool active_
    isPollerRunning_, \* bool isPollerRunning_
    waitables_,       \* std::queue<std::unique_ptr<Waitable>> waitables_
    watchPc,          \* position of the watch(w) call, per Waitable
    loopPc,           \* position of the polling lambda submitted by watch(w)
    loopW,            \* the lambda's local  std::unique_ptr<Waitable> w
    loopError,        \* the lambda's local  std::exception_ptr error
    dispatchQ,        \* work submitted to dispatchFunc_ and not yet finished
    dispatchBusy,     \* the oldest work item of dispatchFunc_ is running
    pollStopped,      \* pollFunc_.stop() has returned
    dispatchStopped,  \* dispatchFunc_.stop() has returned
    stopPc,           \* position of each stop() call
    wasActive,        \* stop()'s local  bool wasActive
    pending,          \* stop()'s local  std::queue pending
    waitCalls,        \* calls made from inside the running wait(), per lambda
    completeCalls,    \* calls made from inside the running dispatch()
    notReadyCount,    \* Waitable: number of wait() calls that returned false
    waitCount,        \* history: number of wait() calls begun, per Waitable
    completeCount,    \* history: number of dispatch() calls, per Waitable
    completeErr,      \* history: error argument of the last dispatch() call
    completeVia,      \* history: who invoked dispatch(): runner or stop()
    pollStopBy,       \* history: pollFunc_.stop() calls made, per stop() call
    dispatchStopBy,   \* history: dispatchFunc_.stop() calls, per stop() call
    waitsWhileStopped,\* history: wait() calls begun while active_ was false
    waitThrew,        \* history: a wait() call on the Waitable has thrown
    requeueCount,     \* history: pushes back to waitables_, per Waitable
    handoffCount,     \* history: submissions to dispatchFunc_, per Waitable
    owed,             \* history: per Waitable X, the Waitables that were
                      \* queued when X's latest wait() began and have not
                      \* been waited on since
    readyPending      \* history: Waitables whose wait() returned true or
                      \* threw and that are not yet submitted to
                      \* dispatchFunc_, oldest first

vars == <<mutex_, active_, isPollerRunning_, waitables_, watchPc, loopPc,
          loopW, loopError, dispatchQ, dispatchBusy, pollStopped,
          dispatchStopped, stopPc, wasActive, pending, waitCalls,
          completeCalls, notReadyCount, waitCount, completeCount,
          completeErr, completeVia, pollStopBy, dispatchStopBy,
          waitsWhileStopped, waitThrew, requeueCount, handoffCount, owed,
          readyPending>>

shared == <<active_, isPollerRunning_, waitables_>>
watchVars == <<watchPc>>
loopVars == <<loopPc, loopW, loopError>>
runnerVars == <<pollStopped, dispatchStopped>>
stopVars == <<stopPc, wasActive, pending>>
nestVars == <<waitCalls, completeCalls>>
waitHist == <<notReadyCount, waitCount, waitsWhileStopped>>
completeHist == <<completeCount, completeErr, completeVia>>
stopHist == <<pollStopBy, dispatchStopBy>>
loopHist == <<waitThrew, requeueCount, handoffCount, owed, readyPending>>

\* ---- helpers -----------------------------------------------------------
Occurrences(q, o) == Cardinality({i \in DOMAIN q : q[i] = o})
Range(q) == {q[i] : i \in DOMAIN q}

RECURSIVE SumOver(_, _)
SumOver(f, S) ==
    IF S = {} THEN 0
    ELSE LET x == CHOOSE y \in S : TRUE IN f[x] + SumOver(f, S \ {x})

\* q without its first occurrence of o
RECURSIVE WithoutFirst(_, _)
WithoutFirst(q, o) ==
    IF q = <<>> THEN <<>>
    ELSE IF Head(q) = o THEN Tail(q)
    ELSE <<Head(q)>> \o WithoutFirst(Tail(q), o)

\* ---- the statements of the code that decide the behaviour --------------
\* watch(): if (!active_) return;
CanAccept_Always(active) == TRUE
CanAccept(active) == active

\* watch(): if (isPollerRunning_) return;  isPollerRunning_ = true;
ShouldSubmit_Always(running) == TRUE
ShouldSubmit(running) == ~running

\* watch(): the closing brace of the locked block, before pollFunc_(...)
HolderAfterWatchBlock_Keep(t) == t
HolderAfterWatchBlock(t) == NoThread

\* lambda: if (waitables_.empty() || !active_) { ...; break; }
LoopShouldExit_EmptyOnly(q, active) == q = <<>>
LoopShouldExit_Always(q, active) == TRUE
LoopShouldExit(q, active) == q = <<>> \/ ~active

\* lambda: w = std::move(waitables_.front()); waitables_.pop();
QueueAfterPop_NoPop(q) == q
QueueAfterPop(q) == Tail(q)

\* lambda: bool ready = true; try { ready = w->wait(q_); } catch (...) { }
ReadyAfterWait_ThrowNotReady(outcome) == outcome = "true"
ReadyAfterWait_Always(outcome) == TRUE
ReadyAfterWait(outcome) == outcome # "false"

\* lambda: waitables_.push(std::move(w));
QueueAfterRequeue_Front(q, w) == <<w>> \o q
QueueAfterRequeue(q, w) == Append(q, w)

\* stop(): active_ = false;
ActiveAfterStop_Toggle(active) == ~active
ActiveAfterStop(active) == FALSE

\* stop(): the locked block does not write isPollerRunning_
PollerRunningAfterStop_Reset(running) == FALSE
PollerRunningAfterStop(running) == running

\* stop(): pending.swap(waitables_);   (pending is empty before the swap)
QueueAfterSwap_Copy(q) == q
QueueAfterSwap(q) == <<>>

\* stop(): if (wasActive) { pollFunc_.stop(); dispatchFunc_.stop(); }
ShouldStopRunners_Always(was) == TRUE
ShouldStopRunners(was) == was

\* stop(): pollFunc_.stop() comes before dispatchFunc_.stop()
RunnerStopOrder_DispatchFirst == <<"stopDispatch", "stopPoll">>
RunnerStopOrder == <<"stopPoll", "stopDispatch">>

\* position of stop() after the runner stop at position pc
AfterRunnerStop(pc) ==
    IF RunnerStopOrder[1] = pc THEN RunnerStopOrder[2] ELSE "drain"

\* a call made by user code has returned
CallReturned(c) ==
    IF c.kind = "watch" THEN watchPc[c.id] \in {"returned", "dropped"}
                        ELSE stopPc[c.id] = "done"

\* ---- initial state: after the constructor ------------------------------
Init ==
    /\ mutex_ = NoThread
    /\ active_ = TRUE
    /\ isPollerRunning_ = FALSE
    /\ waitables_ = <<>>
    /\ watchPc = [o \in Ops |-> "idle"]
    /\ loopPc = [o \in Ops |-> "none"]
    /\ loopW = [o \in Ops |-> NoOp]
    /\ loopError = [o \in Ops |-> "none"]
    /\ dispatchQ = <<>>
    /\ dispatchBusy = FALSE
    /\ pollStopped = FALSE
    /\ dispatchStopped = FALSE
    /\ stopPc = [s \in Stoppers |-> "idle"]
    /\ wasActive = [s \in Stoppers |-> FALSE]
    /\ pending = [s \in Stoppers |-> <<>>]
    /\ waitCalls = [l \in Ops |-> {}]
    /\ completeCalls = {}
    /\ notReadyCount = [o \in Ops |-> 0]
    /\ waitCount = [o \in Ops |-> 0]
    /\ completeCount = [o \in Ops |-> 0]
    /\ completeErr = [o \in Ops |-> "none"]
    /\ completeVia = [o \in Ops |-> "none"]
    /\ pollStopBy = [s \in Stoppers |-> 0]
    /\ dispatchStopBy = [s \in Stoppers |-> 0]
    /\ waitsWhileStopped = 0
    /\ waitThrew = [o \in Ops |-> FALSE]
    /\ requeueCount = [o \in Ops |-> 0]
    /\ handoffCount = [o \in Ops |-> 0]
    /\ owed = [o \in Ops |-> {}]
    /\ readyPending = <<>>

\* ---- watch(w) -----------------------------------------------------------
\* std::lock_guard<std::mutex> lock(mutex_);  at the top of watch()
WatchEnter(o) ==
    /\ watchPc[o] = "idle"
    /\ mutex_ = NoThread
    /\ mutex_' = WatchThread(o)
    /\ UNCHANGED <<shared, watchVars, loopVars, dispatchQ, dispatchBusy,
                   runnerVars, stopVars, waitHist, completeHist, stopHist,
                   loopHist>>

\* watch() called by a thread of its own
WatchLock(o) ==
    /\ WatchEnter(o)
    /\ UNCHANGED nestVars

\* The locked block of watch(): drop, or push and return, or push and go on
\* to submit the polling lambda.
WatchLocked(o) ==
    /\ watchPc[o] = "idle"
    /\ mutex_ = WatchThread(o)
    /\ mutex_' = HolderAfterWatchBlock(mutex_)
    /\ IF ~CanAccept(active_)
       THEN /\ watchPc' = [watchPc EXCEPT ![o] = "dropped"]
            /\ UNCHANGED shared
       ELSE /\ waitables_' = Append(waitables_, o)
            /\ IF ~ShouldSubmit(isPollerRunning_)
               THEN /\ watchPc' = [watchPc EXCEPT ![o] = "returned"]
                    /\ UNCHANGED isPollerRunning_
               ELSE /\ watchPc' = [watchPc EXCEPT ![o] = "submit"]
                    /\ isPollerRunning_' = TRUE
            /\ UNCHANGED active_
    /\ UNCHANGED <<loopVars, dispatchQ, dispatchBusy, runnerVars, stopVars,
                   nestVars, waitHist, completeHist, stopHist, loopHist>>

\* pollFunc_([this, keep]() { ... });  A runner that was already stopped
\* either still runs the lambda or discards it.
WatchSubmit(o) ==
    /\ watchPc[o] = "submit"
    /\ watchPc' = [watchPc EXCEPT ![o] = "returned"]
    /\ \E taken \in (IF pollStopped THEN {TRUE, FALSE} ELSE {TRUE}) :
          loopPc' = [loopPc EXCEPT ![o] = IF taken THEN "queued" ELSE "refused"]
    /\ UNCHANGED <<mutex_, shared, loopW, loopError, dispatchQ, dispatchBusy,
                   runnerVars, stopVars, nestVars, waitHist, completeHist,
                   stopHist, loopHist>>

\* ---- the polling lambda, run by the poll runner -------------------------
LoopStart(l) ==
    /\ loopPc[l] = "queued"
    /\ loopPc' = [loopPc EXCEPT ![l] = "check"]
    /\ UNCHANGED <<mutex_, shared, watchVars, loopW, loopError, dispatchQ,
                   dispatchBusy, runnerVars, stopVars, nestVars, waitHist,
                   completeHist, stopHist, loopHist>>

\* std::lock_guard<std::mutex> lock(mutex_);  at the top of the loop body
\* and in the  if (!ready)  branch
LoopLock(l) ==
    /\ loopPc[l] \in {"check", "requeue"}
    /\ mutex_ = NoThread
    /\ mutex_' = LoopThread(l)
    /\ UNCHANGED <<shared, watchVars, loopVars, dispatchQ, dispatchBusy,
                   runnerVars, stopVars, nestVars, waitHist, completeHist,
                   stopHist, loopHist>>

\* locked block, branch  isPollerRunning_ = false; break;
LoopExit(l) ==
    /\ loopPc[l] = "check"
    /\ mutex_ = LoopThread(l)
    /\ LoopShouldExit(waitables_, active_)
    /\ mutex_' = NoThread
    /\ isPollerRunning_' = FALSE
    /\ loopPc' = [loopPc EXCEPT ![l] = "exited"]
    /\ UNCHANGED <<active_, waitables_, watchVars, loopW, loopError, dispatchQ,
                   dispatchBusy, runnerVars, stopVars, nestVars, waitHist,
                   completeHist, stopHist, loopHist>>

\* locked block, branch  w = std::move(waitables_.front()); waitables_.pop();
LoopPop(l) ==
    /\ loopPc[l] = "check"
    /\ mutex_ = LoopThread(l)
    /\ ~LoopShouldExit(waitables_, active_)
    /\ mutex_' = NoThread
    /\ loopW' = [loopW EXCEPT ![l] = Head(waitables_)]
    /\ waitables_' = QueueAfterPop(waitables_)
    /\ loopError' = [loopError EXCEPT ![l] = "none"]
    /\ loopPc' = [loopPc EXCEPT ![l] = "call"]
    /\ UNCHANGED <<active_, isPollerRunning_, watchVars, dispatchQ,
                   dispatchBusy, runnerVars, stopVars, nestVars, waitHist,
                   completeHist, stopHist, loopHist>>

\* w->wait(q_) is entered
LoopWaitBegin(l) ==
    /\ loopPc[l] = "call"
    /\ loopPc' = [loopPc EXCEPT ![l] = "waiting"]
    /\ waitCount' = [waitCount EXCEPT ![loopW[l]] = @ + 1]
    /\ waitsWhileStopped' = IF active_ THEN waitsWhileStopped
                                       ELSE waitsWhileStopped + 1
    /\ owed' = [y \in Ops |-> IF y = loopW[l] THEN Range(waitables_) \ {y}
                                               ELSE owed[y] \ {loopW[l]}]
    /\ UNCHANGED <<mutex_, shared, watchVars, loopW, loopError, dispatchQ,
                   dispatchBusy, runnerVars, stopVars, nestVars, notReadyCount,
                   completeHist, stopHist, waitThrew, requeueCount,
                   handoffCount, readyPending>>

\* w->wait(q_) returns true, returns false, or throws (caught by catch (...),
\* which leaves ready == true).  It returns once the calls that the user code
\* made from inside it have returned.
LoopWaitEnd(l) ==
    /\ loopPc[l] = "waiting"
    /\ \A c \in waitCalls[l] : CallReturned(c)
    /\ waitCalls' = [waitCalls EXCEPT ![l] = {}]
    /\ \E outcome \in {"true", "false", "throw"} :
          /\ outcome = "false" => notReadyCount[loopW[l]] < MaxNotReady
          /\ notReadyCount' = IF outcome = "false"
                              THEN [notReadyCount EXCEPT ![loopW[l]] = @ + 1]
                              ELSE notReadyCount
          /\ waitThrew' = IF outcome = "throw"
                          THEN [waitThrew EXCEPT ![loopW[l]] = TRUE]
                          ELSE waitThrew
          /\ readyPending' = IF outcome = "false"
                             THEN readyPending
                             ELSE Append(readyPending, loopW[l])
          /\ loopError' = [loopError EXCEPT
                             ![l] = IF outcome = "throw" THEN "wait" ELSE "none"]
          /\ loopPc' = [loopPc EXCEPT
                          ![l] = IF ReadyAfterWait(outcome) THEN "dispatch"
                                                           ELSE "requeue"]
    /\ UNCHANGED <<mutex_, shared, watchVars, loopW, dispatchQ, dispatchBusy,
                   runnerVars, stopVars, completeCalls, waitCount,
                   waitsWhileStopped, completeHist, stopHist, requeueCount,
                   handoffCount, owed>>

\* if (!ready) { lock; waitables_.push(std::move(w)); continue; }
LoopRequeue(l) ==
    /\ loopPc[l] = "requeue"
    /\ mutex_ = LoopThread(l)
    /\ mutex_' = NoThread
    /\ waitables_' = QueueAfterRequeue(waitables_, loopW[l])
    /\ requeueCount' = [requeueCount EXCEPT ![loopW[l]] = @ + 1]
    /\ loopW' = [loopW EXCEPT ![l] = NoOp]
    /\ loopPc' = [loopPc EXCEPT ![l] = "check"]
    /\ UNCHANGED <<active_, isPollerRunning_, watchVars, loopError, dispatchQ,
                   dispatchBusy, runnerVars, stopVars, nestVars, waitHist,
                   completeHist, stopHist, waitThrew, handoffCount, owed,
                   readyPending>>

\* dispatchFunc_([w, error]() { w->dispatch(error); });  A runner that was
\* already stopped either still runs the work or discards it.
LoopDispatch(l) ==
    /\ loopPc[l] = "dispatch"
    /\ \E taken \in (IF dispatchStopped THEN {TRUE, FALSE} ELSE {TRUE}) :
          dispatchQ' = IF taken
                       THEN Append(dispatchQ, [w |-> loopW[l], error |-> loopError[l]])
                       ELSE dispatchQ
    /\ handoffCount' = [handoffCount EXCEPT ![loopW[l]] = @ + 1]
    /\ readyPending' = WithoutFirst(readyPending, loopW[l])
    /\ loopW' = [loopW EXCEPT ![l] = NoOp]
    /\ loopPc' = [loopPc EXCEPT ![l] = "check"]
    /\ UNCHANGED <<mutex_, shared, watchVars, loopError, dispatchBusy,
                   runnerVars, stopVars, nestVars, waitHist, completeHist,
                   stopHist, waitThrew, requeueCount, owed>>

\* ---- the dispatch runner ------------------------------------------------
\* starts the oldest submitted work item:  w->dispatch(error)  is invoked
DispatchRun ==
    /\ dispatchQ # <<>>
    /\ ~dispatchBusy
    /\ dispatchBusy' = TRUE
    /\ LET t == Head(dispatchQ) IN
          /\ completeCount' = [completeCount EXCEPT ![t.w] = @ + 1]
          /\ completeErr' = [completeErr EXCEPT ![t.w] = t.error]
          /\ completeVia' = [completeVia EXCEPT ![t.w] = "runner"]
    /\ UNCHANGED <<mutex_, shared, watchVars, loopVars, dispatchQ, runnerVars,
                   stopVars, nestVars, waitHist, stopHist, loopHist>>

\* w->dispatch(error) returns, once the calls that the user code made from
\* inside it have returned; the work item is finished
DispatchDone ==
    /\ dispatchBusy
    /\ \A c \in completeCalls : CallReturned(c)
    /\ completeCalls' = {}
    /\ dispatchBusy' = FALSE
    /\ dispatchQ' = Tail(dispatchQ)
    /\ UNCHANGED <<mutex_, shared, watchVars, loopVars, runnerVars, stopVars,
                   waitCalls, waitHist, completeHist, stopHist, loopHist>>

\* ---- stop() -------------------------------------------------------------
\* std::lock_guard<std::mutex> lock(mutex_);  at the top of stop()
StopEnter(s) ==
    /\ stopPc[s] = "idle"
    /\ mutex_ = NoThread
    /\ mutex_' = StopThread(s)
    /\ UNCHANGED <<shared, watchVars, loopVars, dispatchQ, dispatchBusy,
                   runnerVars, stopVars, waitHist, completeHist, stopHist,
                   loopHist>>

\* stop() called by a thread of its own
StopLock(s) ==
    /\ StopEnter(s)
    /\ UNCHANGED nestVars

\* locked block: wasActive = active_; active_ = false; pending.swap(waitables_)
StopLocked(s) ==
    /\ stopPc[s] = "idle"
    /\ mutex_ = StopThread(s)
    /\ mutex_' = NoThread
    /\ wasActive' = [wasActive EXCEPT ![s] = active_]
    /\ active_' = ActiveAfterStop(active_)
    /\ isPollerRunning_' = PollerRunningAfterStop(isPollerRunning_)
    /\ pending' = [pending EXCEPT ![s] = waitables_]
    /\ waitables_' = QueueAfterSwap(waitables_)
    /\ stopPc' = [stopPc EXCEPT
                    ![s] = IF ShouldStopRunners(active_) THEN RunnerStopOrder[1]
                                                         ELSE "drain"]
    /\ UNCHANGED <<watchVars, loopVars, dispatchQ, dispatchBusy, runnerVars,
                   nestVars, waitHist, completeHist, stopHist, loopHist>>

\* pollFunc_.stop(): returns when the submitted lambdas have finished
PollRunnerIdle == \A l \in Ops : loopPc[l] \in {"none", "exited", "refused"}

StopPollRunner(s) ==
    /\ stopPc[s] = "stopPoll"
    /\ PollRunnerIdle
    /\ pollStopped' = TRUE
    /\ pollStopBy' = [pollStopBy EXCEPT ![s] = @ + 1]
    /\ stopPc' = [stopPc EXCEPT ![s] = AfterRunnerStop("stopPoll")]
    /\ UNCHANGED <<mutex_, shared, watchVars, loopVars, dispatchQ, dispatchBusy,
                   dispatchStopped, wasActive, pending, nestVars, waitHist,
                   completeHist, dispatchStopBy, loopHist>>

\* dispatchFunc_.stop(): returns when the submitted work has finished
StopDispatchRunner(s) ==
    /\ stopPc[s] = "stopDispatch"
    /\ dispatchQ = <<>>
    /\ dispatchStopped' = TRUE
    /\ dispatchStopBy' = [dispatchStopBy EXCEPT ![s] = @ + 1]
    /\ stopPc' = [stopPc EXCEPT ![s] = AfterRunnerStop("stopDispatch")]
    /\ UNCHANGED <<mutex_, shared, watchVars, loopVars, dispatchQ, dispatchBusy,
                   pollStopped, wasActive, pending, nestVars, waitHist,
                   completeHist, pollStopBy, loopHist>>

\* pending.front()->dispatch(error); pending.pop();
StopDrain(s) ==
    /\ stopPc[s] = "drain"
    /\ pending[s] # <<>>
    /\ LET o == Head(pending[s]) IN
          /\ completeCount' = [completeCount EXCEPT ![o] = @ + 1]
          /\ completeErr' = [completeErr EXCEPT ![o] = "stop"]
          /\ completeVia' = [completeVia EXCEPT ![o] = "stop"]
    /\ pending' = [pending EXCEPT ![s] = Tail(pending[s])]
    /\ UNCHANGED <<mutex_, shared, watchVars, loopVars, dispatchQ, dispatchBusy,
                   runnerVars, stopPc, wasActive, nestVars, waitHist, stopHist,
                   loopHist>>

\* pending is empty: stop() returns
StopReturn(s) ==
    /\ stopPc[s] = "drain"
    /\ pending[s] = <<>>
    /\ stopPc' = [stopPc EXCEPT ![s] = "done"]
    /\ UNCHANGED <<mutex_, shared, watchVars, loopVars, dispatchQ, dispatchBusy,
                   runnerVars, wasActive, pending, nestVars, waitHist,
                   completeHist, stopHist, loopHist>>

\* ---- watch() and stop() called by user code on a runner -----------------
\* the user code inside the running wait() of lambda l may make a call
InsideWait(l) ==
    /\ loopPc[l] = "waiting"
    /\ \A c \in waitCalls[l] : CallReturned(c)

\* the user code inside the running dispatch() may make a call
InsideDispatch ==
    /\ dispatchBusy
    /\ \A c \in completeCalls : CallReturned(c)

\* Waitable::wait calls watch(o) on the executor
WatchFromWait(o, l) ==
    /\ InsideWait(l)
    /\ WatchEnter(o)
    /\ waitCalls' = [waitCalls EXCEPT ![l] = @ \cup {[kind |-> "watch", id |-> o]}]
    /\ UNCHANGED completeCalls

\* Waitable::wait calls stop() on the executor
StopFromWait(s, l) ==
    /\ InsideWait(l)
    /\ StopEnter(s)
    /\ waitCalls' = [waitCalls EXCEPT ![l] = @ \cup {[kind |-> "stop", id |-> s]}]
    /\ UNCHANGED completeCalls

\* Waitable::dispatch, run by the dispatch runner, calls watch(o)
WatchFromDispatch(o) ==
    /\ InsideDispatch
    /\ WatchEnter(o)
    /\ completeCalls' = completeCalls \cup {[kind |-> "watch", id |-> o]}
    /\ UNCHANGED waitCalls

\* Waitable::dispatch, run by the dispatch runner, calls stop()
StopFromDispatch(s) ==
    /\ InsideDispatch
    /\ StopEnter(s)
    /\ completeCalls' = completeCalls \cup {[kind |-> "stop", id |-> s]}
    /\ UNCHANGED waitCalls

\* ---- specification ------------------------------------------------------
Next ==
    \/ \E o \in Ops : WatchLock(o)
    \/ \E o \in Ops : WatchLocked(o)
    \/ \E o \in Ops : WatchSubmit(o)
    \/ \E l \in Ops : LoopStart(l)
    \/ \E l \in Ops : LoopLock(l)
    \/ \E l \in Ops : LoopExit(l)
    \/ \E l \in Ops : LoopPop(l)
    \/ \E l \in Ops : LoopWaitBegin(l)
    \/ \E l \in Ops : LoopWaitEnd(l)
    \/ \E l \in Ops : LoopRequeue(l)
    \/ \E l \in Ops : LoopDispatch(l)
    \/ DispatchRun
    \/ DispatchDone
    \/ \E s \in Stoppers : StopLock(s)
    \/ \E s \in Stoppers : StopLocked(s)
    \/ \E s \in Stoppers : StopPollRunner(s)
    \/ \E s \in Stoppers : StopDispatchRunner(s)
    \/ \E s \in Stoppers : StopDrain(s)
    \/ \E s \in Stoppers : StopReturn(s)

Spec == Init /\ [][Next]_vars

\* Fairness: the runners execute what was submitted to them, and a thread that
\* has entered watch() or stop() goes on running.  Calling watch() or stop()
\* in the first place is up to the callers.
Fairness ==
    /\ \A o \in Ops : /\ WF_vars(WatchLocked(o))
                      /\ WF_vars(WatchSubmit(o))
    /\ \A l \in Ops : /\ WF_vars(LoopStart(l))
                      /\ WF_vars(LoopLock(l))
                      /\ WF_vars(LoopExit(l))
                      /\ WF_vars(LoopPop(l))
                      /\ WF_vars(LoopWaitBegin(l))
                      /\ WF_vars(LoopWaitEnd(l))
                      /\ WF_vars(LoopRequeue(l))
                      /\ WF_vars(LoopDispatch(l))
    /\ WF_vars(DispatchRun)
    /\ WF_vars(DispatchDone)
    /\ \A s \in Stoppers : /\ WF_vars(StopLocked(s))
                           /\ WF_vars(StopPollRunner(s))
                           /\ WF_vars(StopDispatchRunner(s))
                           /\ WF_vars(StopDrain(s))
                           /\ WF_vars(StopReturn(s))

FairSpec == Spec /\ Fairness

\* The executor with user code that calls back into it from wait() and from
\* dispatch().
ReentrantNext ==
    \/ Next
    \/ \E o \in Ops, l \in Ops : WatchFromWait(o, l)
    \/ \E s \in Stoppers, l \in Ops : StopFromWait(s, l)
    \/ \E o \in Ops : WatchFromDispatch(o)
    \/ \E s \in Stoppers : StopFromDispatch(s)

ReentrantSpec == Init /\ [][ReentrantNext]_vars /\ Fairness

\* ---- vocabulary of the properties ---------------------------------------
\* watch(o) pushed o to waitables_ (it found active_ true)
Accepted(o) == watchPc[o] \in {"submit", "returned"}
\* the polling lambda submitted by watch(l) is submitted and has not yet
\* executed  isPollerRunning_ = false; break;
Alive(l) == loopPc[l] \in {"queued", "check", "call", "waiting", "requeue", "dispatch"}
AliveLoops == {l \in Ops : Alive(l)}
\* o is inside a wait() call
InWait(o) == \E l \in Ops : loopPc[l] = "waiting" /\ loopW[l] = o
\* number of places that own o
InFlight(o) == Cardinality({l \in Ops : loopW[l] = o})
InDispatch(o) == Cardinality({i \in DOMAIN dispatchQ : dispatchQ[i].w = o})
InSnapshot(o) == SumOver([s \in Stoppers |-> Occurrences(pending[s], o)], Stoppers)
Holders(o) == Occurrences(waitables_, o) + InFlight(o) + InDispatch(o) + InSnapshot(o)
\* this step is the locked block of watch(o)
WatchStep(o) == watchPc[o] = "idle" /\ watchPc'[o] # "idle"
\* this step pops an operation from waitables_ into a polling lambda
PopStep == \E l \in Ops : loopPc[l] = "check" /\ loopPc'[l] = "call"
\* this step invokes o's dispatch()
CompleteStep(o) == completeCount'[o] > completeCount[o]
\* this step is stop() call s invoking dispatch() on the head of its snapshot
DrainStep(s) == stopPc[s] = "drain" /\ pending[s] # <<>> /\ pending'[s] = Tail(pending[s])

\* ---- C1 -----------------------------------------------------------------
\* C1: the completion callback of an operation is invoked at most once in
\* total, counting the dispatch runner's calls and those of every stop().
C1_AtMostOnce == \A o \in Ops : completeCount[o] <= 1

\* every stop() has returned; one operation was completed by the dispatch
\* runner and another one by a stop()
C1_Witness ==
    /\ \A s \in Stoppers : stopPc[s] = "done"
    /\ \E o1, o2 \in Ops : /\ Accepted(o1) /\ completeVia[o1] = "runner"
                           /\ Accepted(o2) /\ completeVia[o2] = "stop"

\* ---- C2 -----------------------------------------------------------------
\* C2: every operation accepted by watch is eventually completed, under fair
\* scheduling of the runners, each wait returning false only finitely often.
C2_EventualCompletion ==
    \A o \in Ops : Accepted(o) ~> (completeCount[o] >= 1)

\* ---- C3 -----------------------------------------------------------------
\* C3: at most one polling lambda is alive at any time, and a watch() that
\* finds isPollerRunning_ true pushes its operation and submits nothing.
C3_SinglePoller ==
    /\ [](Cardinality(AliveLoops) <= 1)
    /\ [][\A o \in Ops :
            (WatchStep(o) /\ active_ /\ isPollerRunning_)
               => /\ waitables_' = Append(waitables_, o)
                  /\ watchPc'[o] = "returned"
                  /\ loopPc' = loopPc
                  /\ isPollerRunning_']_vars

\* a watch() has returned without submitting while another lambda is alive
C3_Witness ==
    \E o, l \in Ops : /\ o # l
                      /\ watchPc[o] = "returned" /\ loopPc[o] = "none"
                      /\ Alive(l) /\ loopPc[l] = "waiting"

\* ---- C4 -----------------------------------------------------------------
\* C4: every operation in stop()'s snapshot is completed with the stopped
\* error by the stop() caller itself, once, after both runners have been
\* stopped, and is never passed to wait afterwards.
C4_StopDrains ==
    [][/\ \A s \in Stoppers : DrainStep(s)
             => LET o == Head(pending[s]) IN
                   /\ completeCount'[o] = 1
                   /\ completeErr'[o] = "stop"
                   /\ completeVia'[o] = "stop"
                   /\ pollStopped /\ dispatchStopped
       /\ \A o \in Ops : (InSnapshot(o) > 0 \/ completeVia[o] = "stop")
             => waitCount'[o] = waitCount[o]]_vars

\* ---- C5 -----------------------------------------------------------------
\* C5: pollFunc_.stop() and dispatchFunc_.stop() are each called at most
\* once over all stop() calls, and only by a stop() that saw active_ true.
C5_RunnersStoppedOnce ==
    /\ SumOver(pollStopBy, Stoppers) <= 1
    /\ SumOver(dispatchStopBy, Stoppers) <= 1
    /\ \A s \in Stoppers :
          (pollStopBy[s] > 0 \/ dispatchStopBy[s] > 0) => wasActive[s]

\* all stop() calls have returned and both runners were stopped
C5_Witness ==
    /\ \A s \in Stoppers : stopPc[s] = "done"
    /\ SumOver(pollStopBy, Stoppers) = 1
    /\ SumOver(dispatchStopBy, Stoppers) = 1

\* ---- C6 -----------------------------------------------------------------
\* C6: whenever the executor is inactive the queue is empty, so a stop()
\* that finds the executor inactive has an empty snapshot.
C6_InactiveQueueEmpty ==
    /\ ~active_ => waitables_ = <<>>
    /\ \A s \in Stoppers :
          (stopPc[s] # "idle" /\ ~wasActive[s]) => pending[s] = <<>>

\* ---- C7 -----------------------------------------------------------------
\* C7: a watch() whose locked block runs while active_ is false changes
\* neither the queue nor isPollerRunning_, submits nothing, and its
\* operation is never waited on nor completed.
C7_WatchAfterStopDrops ==
    /\ [][\A o \in Ops :
            (WatchStep(o) /\ ~active_)
               => /\ waitables_' = waitables_
                  /\ isPollerRunning_' = isPollerRunning_
                  /\ loopPc' = loopPc
                  /\ watchPc'[o] = "dropped"]_vars
    /\ [](\A o \in Ops :
            watchPc[o] = "dropped"
               => /\ loopPc[o] = "none"
                  /\ Holders(o) = 0
                  /\ waitCount[o] = 0
                  /\ completeCount[o] = 0)

\* an operation was dropped after a stop() that completed another one, and
\* every stop() has returned
C7_Witness ==
    /\ \A s \in Stoppers : stopPc[s] = "done"
    /\ \E o, p \in Ops : /\ watchPc[o] = "dropped"
                         /\ Accepted(p) /\ completeCount[p] = 1

\* ---- C8 -----------------------------------------------------------------
\* C8: every operation is owned by at most one of the queue, a polling
\* lambda, the dispatch runner and a stop() snapshot, and dispatch() is
\* never invoked on an operation that is inside wait().
C8_ExclusiveOwnership ==
    /\ [](\A o \in Ops : Holders(o) <= 1)
    /\ [][\A o \in Ops : CompleteStep(o) => ~InWait(o)]_vars

\* a stop() holds a snapshot it took while the polling lambda was inside
\* wait() on another operation, and the wait() is still in progress
C8_Witness ==
    \E s \in Stoppers, o \in Ops :
        /\ stopPc[s] = "stopPoll" /\ pending[s] # <<>>
        /\ InWait(o)
        /\ Holders(o) = 1

\* ---- C9 -----------------------------------------------------------------
\* C9: active_ is true as long as no stop() has run its locked block, and
\* once false it is never true again.
C9_ShutdownTerminal ==
    /\ []((\A s \in Stoppers : stopPc[s] = "idle") => active_)
    /\ [][~active_ => ~active_']_vars

\* every stop() has returned, a watch() came after them, active_ is false
C9_Witness ==
    /\ ~active_
    /\ \A s \in Stoppers : stopPc[s] = "done"
    /\ \E o \in Ops : watchPc[o] = "dropped"

\* ---- C10 ----------------------------------------------------------------
\* C10 as stated: once active_ is false the polling lambda pops no
\* operation and no wait() call begins.
C10_NoWaitAfterStop ==
    [][~active_ => (~PopStep /\ waitCount' = waitCount)]_vars

\* C10 amended: once active_ is false the polling lambda pops no operation;
\* at most one wait() call begins afterwards, the one on the operation that
\* was already popped when active_ became false.
C10_NoPopAfterStop ==
    /\ [][~active_ => ~PopStep]_vars
    /\ [][(~active_ /\ waitCount' # waitCount)
             => \E l \in Ops : /\ loopPc[l] = "call"
                               /\ waitCount' = [waitCount EXCEPT ![loopW[l]] = @ + 1]]_vars
    /\ [](waitsWhileStopped <= 1)

\* a wait() began after active_ became false and its operation came back
\* into the queue
C10_Witness ==
    /\ ~active_
    /\ waitsWhileStopped = 1
    /\ waitables_ # <<>>

\* ---- C11 ----------------------------------------------------------------
\* this step is lambda l entering wait() on the operation it holds
WaitBeginStep(l) == loopPc[l] = "call" /\ loopPc'[l] = "waiting"

\* C11: when wait() begins on an operation X, every operation that was
\* queued when X's previous wait() began has been passed to wait() since.
C11_RoundRobin ==
    [][\A l \in Ops : WaitBeginStep(l) => owed[loopW[l]] = {}]_vars

\* the executor is active, X is inside its second wait(), and Y, queued
\* behind X, had its first wait() between X's two
C11_Witness ==
    \E x, y \in Ops :
        /\ x # y
        /\ active_
        /\ InWait(x) /\ waitCount[x] = 2 /\ requeueCount[x] = 1
        /\ waitCount[y] = 1 /\ y \in owed[x]

\* ---- C12 ----------------------------------------------------------------
\* this step is the wait() call of lambda l throwing
WaitThrowStep(l) ==
    /\ loopPc[l] = "waiting" /\ loopPc'[l] # "waiting"
    /\ ~waitThrew[loopW[l]] /\ waitThrew'[loopW[l]]
\* this step is lambda l leaving the position after a ready or failed wait()
HandoffStep(l) == loopPc[l] = "dispatch" /\ loopPc'[l] # "dispatch"

\* C12: a wait() that throws sends its operation to the dispatch runner, once,
\* with the captured error, and never back to the queue; the lambda goes on
\* exactly as after a wait() that returned true, and the operation is
\* completed with that error.
C12_WaitFailureLocal ==
    /\ [][\A l \in Ops :
            /\ WaitThrowStep(l)
                  => /\ loopPc' = [loopPc EXCEPT ![l] = "dispatch"]
                     /\ loopError'[l] = "wait"
                     /\ readyPending' = Append(readyPending, loopW[l])
                     /\ UNCHANGED <<mutex_, shared, loopW, dispatchQ, watchPc,
                                    stopPc, pending, notReadyCount>>
            /\ (HandoffStep(l) /\ waitThrew[loopW[l]])
                  => /\ dispatchQ' = Append(dispatchQ,
                                            [w |-> loopW[l], error |-> "wait"])
                     /\ loopPc'[l] = "check"
                     /\ UNCHANGED shared]_vars
    /\ [][\A o \in Ops :
            waitThrew[o] => /\ waitCount'[o] = waitCount[o]
                            /\ requeueCount'[o] = requeueCount[o]]_vars
    /\ [](\A o \in Ops :
            /\ waitThrew[o] => /\ handoffCount[o] <= 1
                               /\ Occurrences(waitables_, o) = 0
                               /\ InSnapshot(o) = 0
                               /\ completeVia[o] # "stop"
            /\ completeVia[o] = "runner"
                  => completeErr[o] = (IF waitThrew[o] THEN "wait" ELSE "none"))

\* the executor is active; an operation whose wait() threw was handed to the
\* dispatch runner, and after it one whose wait() returned true
C12_Witness ==
    /\ active_
    /\ Len(dispatchQ) = 2
    /\ dispatchQ[1].error = "wait" /\ waitThrew[dispatchQ[1].w]
    /\ dispatchQ[2].error = "none" /\ ~waitThrew[dispatchQ[2].w]

\* ---- C13 ----------------------------------------------------------------
\* C13: every call of watch() or stop() that user code makes from inside
\* wait() on the poll runner or from inside dispatch() on the dispatch runner
\* returns.
C13_ReentrantCallsReturn ==
    \A c \in Calls :
        ((\E l \in Ops : c \in waitCalls[l]) \/ c \in completeCalls)
            ~> CallReturned(c)

\* ---- C14 ----------------------------------------------------------------
\* thread t is inside one of the blocks guarded by a std::lock_guard: it is
\* not in wait(), not in dispatch(), not submitting to a runner and not
\* stopping one
InLockedBlock(t) ==
    \/ t[1] = "watch" /\ watchPc[t[2]] = "idle"
    \/ t[1] = "loop" /\ loopPc[t[2]] \in {"check", "requeue"}
    \/ t[1] = "stop" /\ stopPc[t[2]] = "idle"
\* this step is a step of thread t
StepOf(t) ==
    \/ t[1] = "watch" /\ watchPc'[t[2]] # watchPc[t[2]]
    \/ t[1] = "loop" /\ loopPc'[t[2]] # loopPc[t[2]]
    \/ t[1] = "stop" /\ stopPc'[t[2]] # stopPc[t[2]]

\* C14: the thread that holds mutex_ is inside a locked block, and every
\* step that changes waitables_, active_ or isPollerRunning_ is a step of
\* the thread that holds mutex_.
C14_NoUserCodeUnderLock ==
    /\ [](mutex_ # NoThread => InLockedBlock(mutex_))
    /\ [][shared' # shared => (mutex_ # NoThread /\ StepOf(mutex_))]_vars

\* the polling lambda holds mutex_ to push a not-ready operation back while
\* a stop() is waiting in pollFunc_.stop()
C14_Witness ==
    \E l \in Ops, s \in Stoppers :
        /\ mutex_ = LoopThread(l) /\ loopPc[l] = "requeue"
        /\ stopPc[s] = "stopPoll"

\* ---- C15 ----------------------------------------------------------------
\* the error argument with which o was submitted to the dispatch runner
HandedWithError(o, e) ==
    \/ \E i \in DOMAIN dispatchQ : dispatchQ[i].w = o /\ dispatchQ[i].error = e
    \/ completeVia[o] = "runner" /\ completeErr[o] = e

\* C15: an operation whose wait() returned false k times and then true has
\* had k + 1 wait() calls and k pushes back to the queue when it is handed to
\* the dispatch runner, is handed over once and with no error; before that
\* it is pushed back only after a wait() that returned false.
C15_RequeueCount ==
    \A o \in Ops :
        /\ requeueCount[o] <= notReadyCount[o]
        /\ notReadyCount[o] <= requeueCount[o] + 1
        /\ handoffCount[o] <= 1
        /\ (handoffCount[o] = 1 /\ ~waitThrew[o])
              => /\ waitCount[o] = notReadyCount[o] + 1
                 /\ requeueCount[o] = notReadyCount[o]
                 /\ HandedWithError(o, "none")

\* no stop() was called; an operation whose wait() returned false as often
\* as it may and then true has been completed by the dispatch runner
C15_Witness ==
    /\ \A s \in Stoppers : stopPc[s] = "idle"
    /\ \E o \in Ops : /\ notReadyCount[o] = MaxNotReady
                      /\ waitCount[o] = MaxNotReady + 1
                      /\ requeueCount[o] = MaxNotReady
                      /\ handoffCount[o] = 1 /\ ~waitThrew[o]
                      /\ completeCount[o] = 1 /\ completeErr[o] = "none"

\* ---- C16 ----------------------------------------------------------------
\* C16: the operation a lambda submits to the dispatch runner is always the
\* oldest one whose wait() returned true or threw and that is not yet
\* submitted: submissions happen in the order of these discoveries.
C16_DispatchInReadyOrder ==
    [][\A l \in Ops :
          HandoffStep(l) => /\ readyPending # <<>>
                            /\ Head(readyPending) = loopW[l]
                            /\ handoffCount'[loopW[l]] = handoffCount[loopW[l]] + 1
                            /\ Len(dispatchQ') = Len(dispatchQ) + 1
                            /\ dispatchQ'[Len(dispatchQ')].w = loopW[l]]_vars

\* Y was found ready by its first wait() and is with the dispatch runner,
\* while X, which had been waited on and pushed back before that wait()
\* began, is still in the queue
C16_Witness ==
    \E x, y \in Ops :
        /\ x # y
        /\ active_
        /\ handoffCount[y] = 1 /\ waitCount[y] = 1 /\ InDispatch(y) = 1
        /\ x \in owed[y] /\ requeueCount[x] = 1 /\ waitCount[x] = 1
        /\ Occurrences(waitables_, x) = 1 /\ handoffCount[x] = 0

\* ---- C17 ----------------------------------------------------------------
\* this step is a step of a polling lambda / of a watch() / of a stop()
LoopStep == \E l \in Ops : loopPc'[l] # loopPc[l]
WatchCallStep == \E o \in Ops : watchPc'[o] # watchPc[o]
StopCallStep == \E s \in Stoppers : stopPc'[s] # stopPc[s]

\* C17 as stated: every change of isPollerRunning_ is made by a step of the
\* polling lambda; watch() and stop() leave it unchanged.
C17_LoopSoleWriter ==
    [][/\ isPollerRunning_' # isPollerRunning_ => LoopStep
       /\ (WatchCallStep \/ StopCallStep) => UNCHANGED isPollerRunning_]_vars

\* C17 amended: isPollerRunning_ is cleared only by the polling lambda, in
\* the step in which it exits; it is set only by the locked block of a
\* watch() that goes on to submit a lambda; stop() leaves it unchanged.
C17_LoopSoleClearer ==
    [][/\ (isPollerRunning_ /\ ~isPollerRunning_')
             => \E l \in Ops : loopPc[l] = "check" /\ loopPc'[l] = "exited"
       /\ (~isPollerRunning_ /\ isPollerRunning_')
             => \E o \in Ops : WatchStep(o) /\ watchPc'[o] = "submit"
       /\ StopCallStep => UNCHANGED isPollerRunning_]_vars

\* a lambda has exited and cleared the flag, a later watch() has set it
\* again, and a stop() has run its locked block since
C17_Witness ==
    /\ isPollerRunning_
    /\ \E l \in Ops : loopPc[l] = "exited"
    /\ \E o \in Ops : watchPc[o] = "submit"
    /\ \E s \in Stoppers : stopPc[s] # "idle"

\* ---- C18 ----------------------------------------------------------------
\* C18: whenever mutex_ is free, the executor is active and an operation is
\* queued or held by a polling lambda, isPollerRunning_ is true; the flag is
\* cleared only by a lambda that holds mutex_ and finds the queue empty or
\* the executor inactive; a watch() that pushes while the flag is false sets
\* it and goes on to submit a lambda.
C18_NoLostWakeup ==
    /\ []((mutex_ = NoThread /\ active_
             /\ (waitables_ # <<>> \/ \E l \in Ops : loopW[l] # NoOp))
          => isPollerRunning_)
    /\ [][/\ (isPollerRunning_ /\ ~isPollerRunning_')
                => /\ waitables_ = <<>> \/ ~active_
                   /\ \E l \in Ops : mutex_ = LoopThread(l)
          /\ \A o \in Ops :
                (WatchStep(o) /\ active_ /\ ~isPollerRunning_)
                   => /\ isPollerRunning_'
                      /\ watchPc'[o] = "submit"]_vars

\* the executor is active, one lambda has gone idle and exited, and the
\* lambda submitted by a later watch() is inside wait()
C18_Witness ==
    /\ active_
    /\ mutex_ = NoThread
    /\ \E k, l \in Ops : /\ loopPc[k] = "exited"
                         /\ loopPc[l] = "waiting"
                         /\ isPollerRunning_

\* ---- C19 ----------------------------------------------------------------
\* C19: no polling lambda submits to the dispatch runner once a stop() has
\* reached dispatchFunc_.stop().
C19_NoDispatchAfterShutdown ==
    [][\A l \in Ops :
          HandoffStep(l) => /\ ~dispatchStopped
                            /\ \A s \in Stoppers : stopPc[s] # "stopDispatch"]_vars

\* an operation whose wait() began after active_ became false was handed to
\* the dispatch runner and completed by it, and after that the dispatch
\* runner was stopped
C19_Witness ==
    /\ dispatchStopped
    /\ waitsWhileStopped = 1
    /\ \E o \in Ops : /\ handoffCount[o] = 1
                      /\ completeVia[o] = "runner"
                      /\ requeueCount[o] = 0 /\ waitCount[o] = 1

\* ---- C20 ----------------------------------------------------------------
\* this step is watch(o) calling pollFunc_ with the polling lambda
SubmitStep(o) == watchPc[o] = "submit" /\ watchPc'[o] = "returned"

\* C20: watch() never submits a polling lambda to the poll runner after
\* pollFunc_.stop() has run.
C20_NoPollSubmitAfterShutdown ==
    [][\A o \in Ops : SubmitStep(o) => ~pollStopped]_vars

====
